---- MODULE Spec2Model ----
(***************************************************************************)
(* Model of the catalog manager of src/main.py: the entity model (Author,  *)
(* Category, Article), the factories, the CatalogManager facade with its   *)
(* JSON persistence, the three menu commands and the main loop.            *)
(***************************************************************************)
EXTENDS Integers, Sequences, FiniteSets, TLC

\* ------------------------------------------------------------------ bounds
\* Most article records a document holds in the model.
MaxArticles == 2
\* Last instant of the wall clock, in ticks.
MaxClock == 2
\* Clock ticks per second (datetime.now() is finer than the second that
\* strftime("%Y-%m-%d %H:%M:%S") keeps).
TicksPerSecond == 2

\* ------------------------------------------------------------------ inputs
\* What a caller passes to add_article, or the user types at the prompts of
\* AddArticleCommand: a first author, the same email under another name and
\* in another category, and a second author in the first category.
Forms ==
    {[name |-> "Ana", email |-> "ana@x.com", category |-> "Tech",
      title |-> "Hello", content |-> "World"],
     [name |-> "Bia", email |-> "ana@x.com", category |-> "Art",
      title |-> "Second", content |-> "Post"],
     [name |-> "Bia", email |-> "bob@x.com", category |-> "Tech",
      title |-> "Third", content |-> "Text"]}

Range(s) == {s[i] : i \in DOMAIN s}

\* ------------------------------------------------------- JSON text of a file
\* A file's text is a sequence of JSON tokens: punctuation, or a quoted string.
P(c) == [k |-> "p", v |-> c]
S(s) == [k |-> "s", v |-> s]

AuthorKeys == <<"name", "email">>
CategoryKeys == <<"name">>
ArticleKeys == <<"title", "content", "author", "category", "published_at">>

RECURSIVE DumpFields(_, _, _)
DumpFields(rec, keys, i) ==
    IF i > Len(keys) THEN <<>>
    ELSE <<S(keys[i]), S(rec[keys[i]])>> \o DumpFields(rec, keys, i + 1)

DumpRecord(rec, keys) == <<P("{")>> \o DumpFields(rec, keys, 1) \o <<P("}")>>

RECURSIVE DumpList(_, _, _)
DumpList(list, keys, i) ==
    IF i > Len(list) THEN <<>>
    ELSE DumpRecord(list[i], keys) \o DumpList(list, keys, i + 1)

\* A dump of the article list alone.
DumpArticlesOnly(d) ==
    <<P("[")>> \o DumpList(d.articles, ArticleKeys, 1) \o <<P("]")>>

\* json.dump(self.data, file, indent=4): keys in insertion order.
Dump(d) ==
    <<P("{")>>
    \o <<S("authors"), P("[")>> \o DumpList(d.authors, AuthorKeys, 1) \o <<P("]")>>
    \o <<S("categories"), P("[")>> \o DumpList(d.categories, CategoryKeys, 1) \o <<P("]")>>
    \o <<S("articles"), P("[")>> \o DumpList(d.articles, ArticleKeys, 1) \o <<P("]")>>
    \o <<P("}")>>

ParseFail == [ok |-> FALSE, val |-> <<>>, next |-> 0]

KeyIndex(keys, key) == CHOOSE j \in 1..Len(keys) : keys[j] = key

\* One object {"k1": "v1", ...} starting at token i.
ParseRecord(toks, i, keys) ==
    LET n == Len(keys) IN
    IF /\ i + 2 * n + 1 <= Len(toks)
       /\ toks[i] = P("{")
       /\ \A j \in 1..n : toks[i + 2 * j - 1] = S(keys[j]) /\ toks[i + 2 * j].k = "s"
       /\ toks[i + 2 * n + 1] = P("}")
    THEN [ok |-> TRUE,
          val |-> [key \in Range(keys) |-> toks[i + 2 * KeyIndex(keys, key)].v],
          next |-> i + 2 * n + 2]
    ELSE ParseFail

\* The parsed object r in front of the parsed rest of its list.
ParseCons(r, rest) ==
    IF ~rest.ok THEN ParseFail
    ELSE [ok |-> TRUE, val |-> <<r.val>> \o rest.val, next |-> rest.next]

\* The objects of a list up to and including its closing bracket.
RECURSIVE ParseList(_, _, _)

\* The list whose first object parsed as r.
ParseListAfter(toks, keys, r) ==
    IF ~r.ok THEN ParseFail
    ELSE ParseCons(r, ParseList(toks, r.next, keys))

ParseList(toks, i, keys) ==
    IF i > Len(toks) THEN ParseFail
    ELSE IF toks[i] = P("]") THEN [ok |-> TRUE, val |-> <<>>, next |-> i + 1]
    ELSE ParseListAfter(toks, keys, ParseRecord(toks, i, keys))

\* "key": [ ... ] starting at token i.
ParseMember(toks, i, key, keys) ==
    IF i + 1 <= Len(toks) /\ toks[i] = S(key) /\ toks[i + 1] = P("[")
    THEN ParseList(toks, i + 2, keys)
    ELSE ParseFail

\* The document of the parsed members a, c and r, closed by the last token.
ParseEnd(toks, a, c, r) ==
    IF r.ok /\ r.next = Len(toks) /\ toks[r.next] = P("}")
    THEN [ok |-> TRUE,
          val |-> [authors |-> a.val, categories |-> c.val, articles |-> r.val],
          next |-> r.next + 1]
    ELSE ParseFail

ParseArticles(toks, a, c) ==
    IF ~c.ok THEN ParseFail
    ELSE ParseEnd(toks, a, c, ParseMember(toks, c.next, "articles", ArticleKeys))

ParseCategories(toks, a) ==
    IF ~a.ok THEN ParseFail
    ELSE ParseArticles(toks, a, ParseMember(toks, a.next, "categories", CategoryKeys))

\* json.load(file): the document, or a JSONDecodeError (ok = FALSE).
Parse(toks) ==
    IF Len(toks) = 0 \/ toks[1] # P("{") THEN ParseFail
    ELSE ParseCategories(toks, ParseMember(toks, 2, "authors", AuthorKeys))

EmptyDocument == [authors |-> <<>>, categories |-> <<>>, articles |-> <<>>]

\* A file: absent, or present with a text.
NoFile == [exists |-> FALSE, text |-> <<>>]
FileOf(text) == [exists |-> TRUE, text |-> text]

\* Decoded with every exception of json.load taken for a missing file.
DecodedLenient(r) ==
    IF r.ok THEN [raised |-> "", doc |-> r.val]
    ELSE [raised |-> "", doc |-> EmptyDocument]

\* What load returns or raises for the result r of json.load.
Decoded(r) ==
    IF r.ok THEN [raised |-> "", doc |-> r.val]
    ELSE [raised |-> "JSONDecodeError", doc |-> EmptyDocument]

\* load without the except clause of line 123.
load_uncaught(f) ==
    IF ~f.exists THEN [raised |-> "FileNotFoundError", doc |-> EmptyDocument]
    ELSE Decoded(Parse(f.text))

\* CatalogManager.load: [raised, doc].
load(f) ==
    IF ~f.exists THEN [raised |-> "", doc |-> EmptyDocument]
    ELSE Decoded(Parse(f.text))

\* Where a failing write may stop in a text of n tokens: before the first
\* token (the file is left empty), midway, or before the last token.
Cuts(n) == {0, n \div 2, n - 1}

\* The ways one save can end: written whole, open() refused, or the write
\* failing after open(.., "w") emptied the file and cut tokens were written.
SaveOutcomes(d) ==
    {[kind |-> "ok", cut |-> 0], [kind |-> "open", cut |-> 0]}
    \cup {[kind |-> "write", cut |-> n] : n \in Cuts(Len(Dump(d)))}

\* save with the file opened for appending instead of writing.
save_appending(d, f, outcome) ==
    CASE outcome.kind = "ok" -> [raised |-> "", file |-> FileOf(f.text \o Dump(d))]
      [] outcome.kind = "open" -> [raised |-> "OSError", file |-> f]
      [] OTHER -> [raised |-> "OSError",
                   file |-> FileOf(f.text \o SubSeq(Dump(d), 1, outcome.cut))]

\* CatalogManager.save: [raised, file].
save(d, f, outcome) ==
    CASE outcome.kind = "ok" -> [raised |-> "", file |-> FileOf(Dump(d))]
      [] outcome.kind = "open" -> [raised |-> "OSError", file |-> f]
      [] OTHER -> [raised |-> "OSError",
                   file |-> FileOf(SubSeq(Dump(d), 1, outcome.cut))]


\* ------------------------------------------------------------ entity model
\* Objects live in a heap, one sequence per class; an instance is its index.
Author(name, email) == [name |-> name, email |-> email, articles |-> <<>>]
Category(name) == [name |-> name, articles |-> <<>>]

EmptyHeap == [authors |-> <<>>, categories |-> <<>>, articles |-> <<>>]

\* published_at of an Article: <<>> is None, <<t>> the datetime t.
None == <<>>

\* Article.__init__: the new instance registers itself with its author and
\* its category.
Article(title, content, author, category, heap) ==
    LET id == Len(heap.articles) + 1 IN
    [ret |-> id,
     heap |-> [authors |-> [heap.authors EXCEPT
                              ![author].articles = Append(@, id)],
               categories |-> [heap.categories EXCEPT
                                 ![category].articles = Append(@, id)],
               articles |-> Append(heap.articles,
                                   [title |-> title, content |-> content,
                                    author |-> author, category |-> category,
                                    published_at |-> None, publishes |-> 0])]]

\* Article.publish
publish(article, now, heap) ==
    [heap EXCEPT !.articles[article].published_at = <<now>>,
                 !.articles[article].publishes = @ + 1]

Pad2(n) == IF n < 10 THEN "0" \o ToString(n) ELSE ToString(n)

\* datetime.strftime("%Y-%m-%d %H:%M:%S"): the sub-second part is dropped.
Strftime(t) ==
    LET sec == t \div TicksPerSecond IN
    "2024-01-01 00:" \o Pad2((sec \div 60) % 60) \o ":" \o Pad2(sec % 60)

\* ---------------------------------------------------------------- factories
\* get_or_create_author replacing a known author by one of the new name.
get_or_create_author_renaming(name, email, mapping, heap) ==
    LET id == Len(heap.authors) + 1 IN
    [ret |-> id,
     mapping |-> (email :> id) @@ mapping,
     heap |-> [heap EXCEPT !.authors = Append(@, Author(name, email))]]

\* get_or_create_author without the insertion of line 90.
get_or_create_author_unstored(name, email, mapping, heap) ==
    IF email \in DOMAIN mapping
    THEN [ret |-> mapping[email], mapping |-> mapping, heap |-> heap]
    ELSE [ret |-> Len(heap.authors) + 1,
          mapping |-> mapping,
          heap |-> [heap EXCEPT !.authors = Append(@, Author(name, email))]]

\* EntityFactory.get_or_create_author on the mapping email -> instance.
get_or_create_author(name, email, mapping, heap) ==
    IF email \in DOMAIN mapping
    THEN [ret |-> mapping[email], mapping |-> mapping, heap |-> heap]
    ELSE LET id == Len(heap.authors) + 1 IN
         [ret |-> id,
          mapping |-> (email :> id) @@ mapping,
          heap |-> [heap EXCEPT !.authors = Append(@, Author(name, email))]]

\* get_or_create_category without the insertion of line 98.
get_or_create_category_unstored(name, mapping, heap) ==
    IF name \in DOMAIN mapping
    THEN [ret |-> mapping[name], mapping |-> mapping, heap |-> heap]
    ELSE [ret |-> Len(heap.categories) + 1,
          mapping |-> mapping,
          heap |-> [heap EXCEPT !.categories = Append(@, Category(name))]]

\* EntityFactory.get_or_create_category on the mapping name -> instance.
get_or_create_category(name, mapping, heap) ==
    IF name \in DOMAIN mapping
    THEN [ret |-> mapping[name], mapping |-> mapping, heap |-> heap]
    ELSE LET id == Len(heap.categories) + 1 IN
         [ret |-> id,
          mapping |-> (name :> id) @@ mapping,
          heap |-> [heap EXCEPT !.categories = Append(@, Category(name))]]

\* create_article publishing the Article twice.
PublishedTwice(made, now) ==
    [ret |-> made.ret,
     heap |-> publish(made.ret, now, publish(made.ret, now, made.heap))]

\* create_article, lines 106-107, on the Article just made.
Published(made, now) ==
    [ret |-> made.ret, heap |-> publish(made.ret, now, made.heap)]

\* ArticleFactory.create_article
create_article(title, content, author, category, now, heap) ==
    Published(Article(title, content, author, category, heap), now)

\* ------------------------------------------------------------------- facade
\* The dict comprehensions of CatalogManager.__init__: one instance per
\* record, a later record of the same key replacing the earlier one.
Last(list, key, v) == CHOOSE i \in 1..Len(list) :
    /\ list[i][key] = v
    /\ \A j \in 1..Len(list) : list[j][key] = v => j <= i

LoadedAuthors(d) ==
    [e \in {d.authors[i].email : i \in 1..Len(d.authors)}
        |-> Last(d.authors, "email", e)]

LoadedCategories(d) ==
    [c \in {d.categories[i].name : i \in 1..Len(d.categories)}
        |-> Last(d.categories, "name", c)]

LoadedHeap(d) ==
    [authors |-> [i \in 1..Len(d.authors)
                    |-> Author(d.authors[i].name, d.authors[i].email)],
     categories |-> [i \in 1..Len(d.categories) |-> Category(d.categories[i].name)],
     articles |-> <<>>]

\* CatalogManager.__init__ over file f: the exception raised ("" for none)
\* and the fields of the new manager, from what load returned.
Manager(l) ==
    [raised |-> l.raised,
     data |-> l.doc,
     authors |-> LoadedAuthors(l.doc),
     categories |-> LoadedCategories(l.doc),
     heap |-> LoadedHeap(l.doc)]

init(f) == Manager(load(f))

\* Lines 135-136 with the new record put first.
AuthorRecordsAtHead(list, author) ==
    IF \E i \in 1..Len(list) : list[i].email = author.email
    THEN list
    ELSE <<[name |-> author.name, email |-> author.email]>> \o list

\* Lines 135-136 left out.
AuthorRecordsNever(list, author) == list

\* Lines 135-136 without the membership test.
AuthorRecordsAlways(list, author) ==
    Append(list, [name |-> author.name, email |-> author.email])

\* add_article, lines 135-136: the author record is appended unless one of
\* that email is there.
AuthorRecords(list, author) ==
    IF \E i \in 1..Len(list) : list[i].email = author.email
    THEN list
    ELSE Append(list, [name |-> author.name, email |-> author.email])

\* Lines 138-139 without the membership test.
CategoryRecordsAlways(list, category) ==
    Append(list, [name |-> category.name])

\* Lines 138-139 with the test inverted.
CategoryRecordsInverted(list, category) ==
    IF \E i \in 1..Len(list) : list[i].name = category.name
    THEN Append(list, [name |-> category.name])
    ELSE list

\* add_article, lines 138-139.
CategoryRecords(list, category) ==
    IF \E i \in 1..Len(list) : list[i].name = category.name
    THEN list
    ELSE Append(list, [name |-> category.name])

\* Lines 141-147 inserting at the head of the list.
ArticleRecordsAtHead(list, article, author, category) ==
    <<[title |-> article.title,
       content |-> article.content,
       author |-> author.email,
       category |-> category.name,
       published_at |-> Strftime(article.published_at[1])]>> \o list

\* add_article, lines 141-147.
ArticleRecords(list, article, author, category) ==
    Append(list, [title |-> article.title,
                  content |-> article.content,
                  author |-> author.email,
                  category |-> category.name,
                  published_at |-> Strftime(article.published_at[1])])

\* add_article, line 150: the result, s being what the save did.  ret is
\* the returned Article, 0 when the call raises instead.
AfterSave(self, a, c, made, d, s) ==
    [self |-> [data |-> d, authors |-> a.mapping, categories |-> c.mapping],
     heap |-> made.heap,
     file |-> s.file,
     raised |-> s.raised,
     ret |-> IF s.raised = "" THEN made.ret ELSE 0,
     author |-> a.ret,
     category |-> c.ret]

\* add_article, lines 135-147: self.data after the three appends.
Document(d, author, category, article) ==
    [authors |-> AuthorRecords(d.authors, author),
     categories |-> CategoryRecords(d.categories, category),
     articles |-> ArticleRecords(d.articles, article, author, category)]

\* add_article, line 149.
AfterRecords(self, f, outcome, a, c, made, d) ==
    AfterSave(self, a, c, made, d, save(d, f, outcome))

\* add_article, lines 135-147.
AfterArticle(self, f, outcome, a, c, made) ==
    AfterRecords(self, f, outcome, a, c, made,
                 Document(self.data, made.heap.authors[a.ret],
                          made.heap.categories[c.ret], made.heap.articles[made.ret]))

\* add_article, line 133.
AfterCategory(self, f, title, content, now, outcome, a, c) ==
    AfterArticle(self, f, outcome, a, c,
                 create_article(title, content, a.ret, c.ret, now, c.heap))

\* add_article, line 132.
AfterAuthor(self, f, category_name, title, content, now, outcome, a) ==
    AfterCategory(self, f, title, content, now, outcome, a,
                  get_or_create_category(category_name, self.categories, a.heap))

\* CatalogManager.add_article on the manager self = [data, authors,
\* categories], the heap and the file; now is what datetime.now() returns and
\* outcome how the save ends.
add_article(self, heap, f, name, email, category_name, title, content, now, outcome) ==
    AfterAuthor(self, f, category_name, title, content, now, outcome,
                get_or_create_author(name, email, self.authors, heap))

\* CatalogManager.list_articles
list_articles(d) == d.articles

Line(msg, arg) == [msg |-> msg, arg |-> arg]

\* CatalogManager.show_article: what it prints; it returns None either way.
show_article(d, index) ==
    IF 0 <= index /\ index < Len(d.articles)
    THEN <<Line("=== ARTIGO SELECIONADO ===", <<d.articles[index + 1]>>)>>
    ELSE <<>>

\* CatalogManager.show_catalog: what it prints.
show_catalog(d) ==
    <<Line("=== CATALOGO ===", <<>>),
      Line("Autores:", d.authors),
      Line("Categorias:", d.categories),
      Line("Artigos:", d.articles)>>


\* -------------------------------------------------------------------- state
VARIABLES
    file,        \* the file at self.filepath
    data,        \* self.data
    authors,     \* self.authors: email -> Author instance
    categories,  \* self.categories: name -> Category instance
    heap,        \* the Author, Category and Article instances of the process
    clock,       \* the wall clock
    pc,          \* "ready": a caller holds a constructed manager;
                 \* "uninit": its construction raised; "menu": main() is at
                 \* its prompt; "exited": main() returned; "crashed_startup",
                 \* "crashed_loop": an exception left main()
    out,         \* what the last operation printed
    last,        \* the last operation: [op, args, raised, ret]
    loaded,      \* the document the manager was constructed with
    calls        \* the add_article calls made on this manager, in order

vars == <<file, data, authors, categories, heap, clock, pc, out, last, loaded, calls>>

\* The file at the start: absent, or holding the empty document.
InitFiles == {NoFile, FileOf(Dump(EmptyDocument))}

Op(op, args, raised, ret) == [op |-> op, args |-> args, raised |-> raised, ret |-> ret]

\* The manager m has been constructed.
Constructed(m) ==
    /\ data' = m.data
    /\ authors' = m.authors
    /\ categories' = m.categories
    /\ heap' = m.heap
    /\ loaded' = m.data
    /\ calls' = <<>>
    /\ last' = Op("__init__", <<>>, m.raised, 0)

\* A caller holds the manager m.
Holding(m) ==
    /\ data = m.data
    /\ authors = m.authors
    /\ categories = m.categories
    /\ heap = m.heap
    /\ loaded = m.data

Init ==
    /\ file \in InitFiles
    /\ Holding(init(file))
    /\ calls = <<>>
    /\ last = Op("__init__", <<>>, "", 0)
    /\ clock = 0
    /\ pc = "ready"
    /\ out = <<>>

\* manager = CatalogManager(): a caller constructs a manager from the file.
ConstructAs(m) ==
    /\ Constructed(m)
    /\ pc' = IF m.raised = "" THEN "ready" ELSE "uninit"

Construct ==
    /\ pc \in {"ready", "uninit"}
    /\ ConstructAs(init(file))
    /\ out' = <<>>
    /\ UNCHANGED <<file, clock>>

\* The manager's fields and the bookkeeping after add_article of the
\* arguments of form; r is add_article's result.
AddArticleDone(r, form, now) ==
    /\ data' = r.self.data
    /\ authors' = r.self.authors
    /\ categories' = r.self.categories
    /\ heap' = r.heap
    /\ file' = r.file
    /\ clock' = now
    /\ last' = Op("add_article", [form |-> form, now |-> now], r.raised, r.ret)
    /\ calls' = Append(calls, [form |-> form, now |-> now, author |-> r.author,
                               category |-> r.category, ret |-> r.ret,
                               raised |-> r.raised])
    /\ UNCHANGED loaded

Self == [data |-> data, authors |-> authors, categories |-> categories]

OkOutcome == [kind |-> "ok", cut |-> 0]

\* The outcomes the save of this add_article can have.
Outcomes(form, now) ==
    SaveOutcomes(add_article(Self, heap, file, form.name, form.email,
                             form.category, form.title, form.content,
                             now, OkOutcome).self.data)

\* manager.add_article(name, email, category_name, title, content)
AddArticle ==
    /\ pc = "ready"
    /\ Len(data.articles) < MaxArticles
    /\ \E form \in Forms, now \in clock..MaxClock :
         \E outcome \in Outcomes(form, now) :
            /\ AddArticleDone(add_article(Self, heap, file, form.name, form.email,
                                          form.category, form.title, form.content,
                                          now, outcome),
                              form, now)
            /\ pc' = pc
            /\ out' = <<>>

\* manager.list_articles()
ListArticles ==
    /\ pc = "ready"
    /\ last' = Op("list_articles", <<>>, "", list_articles(data))
    /\ out' = <<>>
    /\ UNCHANGED <<file, data, authors, categories, heap, clock, pc, loaded, calls>>

\* Indexes a caller may ask for.
Indexes == -1..MaxArticles

\* show_article followed by a save.
ShowArticleSaving ==
    /\ pc = "ready"
    /\ \E index \in Indexes :
         /\ last' = Op("show_article", [index |-> index], "", None)
         /\ out' = show_article(data, index)
    /\ file' = save(data, file, OkOutcome).file
    /\ UNCHANGED <<data, authors, categories, heap, clock, pc, loaded, calls>>

\* manager.show_article(index)
ShowArticle ==
    /\ pc = "ready"
    /\ \E index \in Indexes :
         /\ last' = Op("show_article", [index |-> index], "", None)
         /\ out' = show_article(data, index)
    /\ UNCHANGED <<file, data, authors, categories, heap, clock, pc, loaded, calls>>

\* manager.show_catalog()
ShowCatalog ==
    /\ pc = "ready"
    /\ last' = Op("show_catalog", <<>>, "", None)
    /\ out' = show_catalog(data)
    /\ UNCHANGED <<file, data, authors, categories, heap, clock, pc, loaded, calls>>


\* ----------------------------------------------------------------- commands
\* What the user may type at the main menu and at "Numero do artigo: ".
Options == {"0", "1", "2", "3", "4", ""}
Selections == {"abc"} \cup {ToString(n) : n \in 0..(MaxArticles + 1)}

\* int(text): the number, or a ValueError.
int(text) ==
    IF \E n \in 0..(MaxArticles + 1) : ToString(n) = text
    THEN [raised |-> "",
          val |-> CHOOSE n \in 0..(MaxArticles + 1) : ToString(n) = text]
    ELSE [raised |-> "ValueError", val |-> 0]

\* The list ReadArticleCommand.execute prints, lines 223-225.
Listing(artigos) ==
    <<Line("=== LISTA DE ARTIGOS ===", <<>>)>>
    \o [i \in 1..Len(artigos) |-> Line(ToString(i), <<artigos[i]>>)]

\* main(), line 239: the process starts and constructs its manager; an
\* exception of the constructor leaves main().
MainAs(m) ==
    /\ Constructed(m)
    /\ pc' = IF m.raised = "" THEN "menu" ELSE "crashed_startup"
    /\ out' = IF m.raised = "" THEN <<>> ELSE <<Line("Traceback", <<>>)>>

Main ==
    /\ pc # "menu"
    /\ MainAs(init(file))
    /\ UNCHANGED <<file, clock>>

\* Option 1: ShowCatalogCommand.execute
MenuShowCatalog ==
    /\ pc = "menu"
    /\ last' = Op("show_catalog", <<>>, "", None)
    /\ out' = show_catalog(data)
    /\ UNCHANGED <<file, data, authors, categories, heap, clock, pc, loaded, calls>>

\* AddArticleCommand.execute after add_article, lines 206-208: the success
\* message, or the exception going up.
AddArticleCommandDone(r, form, now) ==
    /\ AddArticleDone(r, form, now)
    /\ pc' = IF r.raised = "" THEN "menu" ELSE "crashed_loop"
    /\ out' = IF r.raised = ""
              THEN <<Line("Artigo salvo com sucesso!", <<>>)>>
              ELSE <<Line("Traceback", <<>>)>>

\* Option 2: AddArticleCommand.execute; an exception of add_article is
\* caught neither here nor in main().
MenuAddArticle ==
    /\ pc = "menu"
    /\ Len(data.articles) < MaxArticles
    /\ \E form \in Forms, now \in clock..MaxClock :
         \E outcome \in Outcomes(form, now) :
            AddArticleCommandDone(add_article(Self, heap, file, form.name,
                                              form.email, form.category,
                                              form.title, form.content,
                                              now, outcome),
                                  form, now)

\* ReadArticleCommand.execute, lines 227-231, escolha being what int made
\* of the text typed.
Selected(artigos, escolha) ==
    IF escolha.raised # ""
    THEN /\ last' = Op("list_articles", <<>>, "", artigos)
         /\ out' = Listing(artigos) \o <<Line("Entrada invalida.", <<>>)>>
    ELSE /\ last' = Op("show_article", [index |-> escolha.val - 1], "", None)
         /\ out' = Listing(artigos) \o show_article(data, escolha.val - 1)

\* Option 3: ReadArticleCommand.execute
MenuReadArticle ==
    /\ pc = "menu"
    /\ LET artigos == list_articles(data) IN
       IF artigos = <<>>
       THEN /\ last' = Op("list_articles", <<>>, "", artigos)
            /\ out' = <<Line("Nenhum artigo cadastrado.", <<>>)>>
       ELSE \E text \in Selections : Selected(artigos, int(text))
    /\ UNCHANGED <<file, data, authors, categories, heap, clock, pc, loaded, calls>>

\* Any other option: lines 260-262.
MenuInvalid ==
    /\ pc = "menu"
    /\ \E opcao \in Options \ {"0", "1", "2", "3"} :
         /\ last' = Op("menu", [opcao |-> opcao], "", None)
         /\ out' = <<Line("Opcao invalida.", <<>>)>>
    /\ UNCHANGED <<file, data, authors, categories, heap, clock, pc, loaded, calls>>

\* Option 0: the loop ends and main() returns.
MenuExit ==
    /\ pc = "menu"
    /\ pc' = "exited"
    /\ last' = Op("menu", [opcao |-> "0"], "", None)
    /\ out' = <<>>
    /\ UNCHANGED <<file, data, authors, categories, heap, clock, loaded, calls>>

\* The process before main() runs.
InitMain ==
    /\ file \in InitFiles
    /\ data = EmptyDocument
    /\ authors = LoadedAuthors(EmptyDocument)
    /\ categories = LoadedCategories(EmptyDocument)
    /\ heap = EmptyHeap
    /\ loaded = EmptyDocument
    /\ calls = <<>>
    /\ last = Op("", <<>>, "", 0)
    /\ clock = 0
    /\ pc = "start"
    /\ out = <<>>

\* The facade, driven by a caller that holds the manager.
Next ==
    \/ Construct
    \/ AddArticle
    \/ ListArticles
    \/ ShowArticle
    \/ ShowCatalog

Spec == Init /\ [][Next]_vars

\* The program: main() and its commands, run after run.
NextMain ==
    \/ Main
    \/ MenuShowCatalog
    \/ MenuAddArticle
    \/ MenuReadArticle
    \/ MenuInvalid
    \/ MenuExit

SpecMain == InitMain /\ [][NextMain]_vars


\* --------------------------------------------------------------- properties
Emails(list) == {list[i].email : i \in 1..Len(list)}
CategoryNames(list) == {list[i].name : i \in 1..Len(list)}

Unique(list, key) ==
    \A i, j \in 1..Len(list) : list[i][key] = list[j][key] => i = j

\* The article record add_article appends for a call.
RecordOf(call) ==
    [title |-> call.form.title, content |-> call.form.content,
     author |-> call.form.email, category |-> call.form.category,
     published_at |-> Strftime(call.now)]

Failed(call) == call.raised # ""

AddArticleRaised == last.op = "add_article" /\ last.raised # ""
AddArticleReturned == last.op = "add_article" /\ last.raised = ""

\* The name the author instance of the last call's email goes by.
KnownName == heap.authors[authors[last.args.form.email]].name

\* C1: data["authors"] never holds two records of one email and
\* data["categories"] never two records of one name, whatever add_article
\* calls and re-constructions from the file came before.
C1_UniqueKeys ==
    /\ Unique(data.authors, "email")
    /\ Unique(data.categories, "name")

\* C1's case: a manager re-constructed from a file that holds articles was
\* given a known email under another name.
C1_Witness ==
    /\ last.op = "add_article"
    /\ loaded.articles # <<>>
    /\ last.args.form.email \in Emails(loaded.authors)
    /\ KnownName # last.args.form.name

\* C2: every article record's author is the email of an author record and its
\* category the name of a category record, also after a failed save and
\* after any further add_article.
C2_ReferentialIntegrity ==
    \A i \in 1..Len(data.articles) :
        /\ data.articles[i].author \in Emails(data.authors)
        /\ data.articles[i].category \in CategoryNames(data.categories)

\* C2's case: a call whose save failed, followed by a further call.
C2_Witness ==
    /\ Len(calls) >= 2
    /\ Failed(calls[1])
    /\ Len(data.authors) = 2

\* C3 as stated: from an empty catalog, list_articles() has as many entries
\* as add_article calls succeeded, entry i being the i-th successful call's.
Succeeded == SelectSeq(calls, LAMBDA call : ~Failed(call))

C3_CountsSuccessfulCalls ==
    loaded.articles = <<>> =>
        list_articles(data) = [i \in 1..Len(Succeeded) |-> RecordOf(Succeeded[i])]

\* C3 amended: list_articles() is the loaded records followed by one record
\* per add_article call made on the manager, whether its save succeeded or
\* failed, in call order; so no call alters or removes an earlier record.
C3_AppendOnly ==
    list_articles(data) = loaded.articles \o [i \in 1..Len(calls) |-> RecordOf(calls[i])]

\* C3's case: from an empty catalog, a call whose save failed and then a
\* different call whose save succeeded.
C3_Witness ==
    /\ loaded.articles = <<>>
    /\ Len(calls) = 2
    /\ Failed(calls[1])
    /\ ~Failed(calls[2])
    /\ RecordOf(calls[1]) # RecordOf(calls[2])

\* C4: when add_article has returned, the file holds the document self.data,
\* and a manager constructed from it gets that document.
HoldsDocument(parsed, m) ==
    /\ parsed.ok
    /\ parsed.val = data
    /\ m.raised = ""
    /\ m.data = data

C4_Durable ==
    AddArticleReturned =>
        /\ file.exists
        /\ HoldsDocument(Parse(file.text), init(file))

\* C4's case: a second successful save over an existing file.
C4_Witness ==
    /\ AddArticleReturned
    /\ Len(data.articles) = 2
    /\ Len(data.authors) = 2
    /\ Len(calls) = 2

\* C5: an add_article whose save fails leaves the file as it was.
C5_FailedSaveKeepsFile ==
    [][(Len(calls') = Len(calls) + 1 /\ Failed(calls'[Len(calls')])) => file' = file]_vars

\* C6: a lookup outside [0, len) is signalled: it raises, or the user is told
\* the selection is invalid; a lookup inside prints the record.
InRange(index) == 0 <= index /\ index < Len(data.articles)

C6_OutOfRangeSignalled ==
    last.op = "show_article" =>
        IF InRange(last.args.index)
        THEN \E i \in 1..Len(out) :
                out[i] = Line("=== ARTIGO SELECIONADO ===",
                              <<data.articles[last.args.index + 1]>>)
        ELSE \/ last.raised # ""
             \/ \E i \in 1..Len(out) : out[i].msg = "Entrada invalida."

\* C7: every call of one email gets the same Author instance, the one the
\* mapping holds, and the mapping grows by at most one entry per email;
\* likewise for categories by name.
C7_IdempotentResolution ==
    /\ \A i, j \in 1..Len(calls) :
          /\ calls[i].form.email = calls[j].form.email => calls[i].author = calls[j].author
          /\ calls[i].form.category = calls[j].form.category
                => calls[i].category = calls[j].category
    /\ \A i \in 1..Len(calls) :
          /\ calls[i].form.email \in DOMAIN authors
          /\ authors[calls[i].form.email] = calls[i].author
          /\ calls[i].form.category \in DOMAIN categories
          /\ categories[calls[i].form.category] = calls[i].category
    /\ Cardinality(DOMAIN authors)
          <= Len(loaded.authors) + Cardinality({calls[i].form.email : i \in 1..Len(calls)})
    /\ Cardinality(DOMAIN categories)
          <= Len(loaded.categories)
             + Cardinality({calls[i].form.category : i \in 1..Len(calls)})

\* C7's case: two calls of one email under different names.
C7_Witness ==
    \E i, j \in 1..Len(calls) :
        /\ calls[i].form.email = calls[j].form.email
        /\ calls[i].form.name # calls[j].form.name

\* The name an email was first seen under by this manager: in the loaded
\* document, else in the first call of that email.
FirstSeenName(email) ==
    IF email \in Emails(loaded.authors)
    THEN loaded.authors[CHOOSE i \in 1..Len(loaded.authors) :
                            loaded.authors[i].email = email].name
    ELSE calls[CHOOSE i \in 1..Len(calls) :
                  /\ calls[i].form.email = email
                  /\ \A j \in 1..(i - 1) : calls[j].form.email # email].form.name

\* The manager m has the first-seen name for each author it shares with
\* the manager in memory.
SeesFirstNames(m) ==
    m.raised = "" =>
        \A i \in 1..Len(m.data.authors) :
            m.data.authors[i].email \in DOMAIN authors
                => m.data.authors[i].name = FirstSeenName(m.data.authors[i].email)

\* C8: an author keeps the name its email was first seen under, in the
\* Author of the mapping and in the record of data["authors"], and that is
\* the name a manager constructed from the file gets for it.
C8_FirstWriteWins ==
    /\ \A email \in DOMAIN authors :
          heap.authors[authors[email]].name = FirstSeenName(email)
    /\ \A i \in 1..Len(data.authors) :
          data.authors[i].name = FirstSeenName(data.authors[i].email)
    /\ SeesFirstNames(init(file))

\* C8's case: a known email was passed under another name, and the file was
\* written after it.
C8_Witness ==
    /\ AddArticleReturned
    /\ KnownName # last.args.form.name

\* C9 as stated: once a save has failed, memory stays ahead of the file for
\* the rest of the session.
Ahead(l) == l.raised # "" \/ l.doc # data

C9_AheadForTheSession ==
    (\E i \in 1..Len(calls) : Failed(calls[i])) => Ahead(load(file))

\* C9 amended: a failed save raises, no Article is returned and nothing is
\* rolled back, now or later in the session: the document keeps the record
\* and the author and category records, the mappings keep the entities; and
\* when the call raises, the file does not hold the document in memory.
C9_NoRollback ==
    /\ \A i \in 1..Len(calls) :
          Failed(calls[i]) =>
              /\ calls[i].ret = 0
              /\ Len(data.articles) >= Len(loaded.articles) + i
              /\ data.articles[Len(loaded.articles) + i] = RecordOf(calls[i])
              /\ calls[i].form.email \in Emails(data.authors)
              /\ calls[i].form.category \in CategoryNames(data.categories)
              /\ calls[i].form.email \in DOMAIN authors
              /\ calls[i].form.category \in DOMAIN categories
    /\ AddArticleRaised => last.ret = 0 /\ Ahead(load(file))

\* C9's case: a failed save that created an author and a category, with a
\* later call behind it.
C9_Witness ==
    /\ Len(calls) >= 2
    /\ Failed(calls[1])
    /\ loaded.authors = <<>>
    /\ AddArticleRaised

\* C10: once the menu loop runs, the process ends only by the exit option;
\* the one other end is a failure at startup.
C10_OnlyExitTerminates ==
    pc \in {"start", "menu", "exited", "crashed_startup"}


\* The step constructs a manager.
ConstructStep == last'.op = "__init__"

\* Saving document d over file f and loading the result gives d back.
SaveThenLoad(d, f) ==
    load(save(d, f, OkOutcome).file) = [raised |-> "", doc |-> d]

\* Saving the loaded document l over file f leaves the text of f as it was.
LoadThenSave(l, f) ==
    (f.exists /\ l.raised = "") => save(l.doc, f, OkOutcome).file = f

\* C11: saving a document and loading the file gives the document back,
\* record by record in order; saving what was loaded from a file leaves the
\* file's document as it was.
C11_RoundTrip ==
    /\ SaveThenLoad(data, file)
    /\ LoadThenSave(load(file), file)

\* C11's case: a manager constructed from a file that a save wrote, holding
\* two authors, two categories and two articles of different seconds.
C11_Witness ==
    /\ last.op = "__init__"
    /\ file.exists
    /\ Len(data.authors) = 2
    /\ Len(data.categories) = 2
    /\ data.articles[1].published_at # data.articles[2].published_at

\* C12: constructing over a missing file raises nothing, gives a ready
\* manager with three empty lists and two empty mappings, and leaves the file
\* missing.
C12_FreshStart ==
    [][(ConstructStep /\ ~file.exists) =>
          /\ last'.raised = ""
          /\ pc' = "ready"
          /\ data' = EmptyDocument
          /\ DOMAIN authors' = {}
          /\ DOMAIN categories' = {}
          /\ file' = file]_vars

\* C12's case: a manager constructed over the missing file after an
\* add_article whose save could not open it.
C12_Witness ==
    /\ last.op = "__init__"
    /\ ~file.exists
    /\ clock > 0
    /\ pc = "ready"

Malformed(f) == f.exists /\ ~Parse(f.text).ok

\* C13: constructing over a malformed file raises the parse error, the
\* manager is not ready, no operation of it can be called, and the file is
\* left as it was.
C13_ParseErrorPropagates ==
    /\ [][(ConstructStep /\ Malformed(file)) =>
             /\ last'.raised = "JSONDecodeError"
             /\ pc' = "uninit"
             /\ file' = file]_vars
    /\ [](pc = "uninit" => ~ENABLED (AddArticle \/ ListArticles \/ ShowArticle \/ ShowCatalog))

\* C13's case: construction failed over a file cut midway.
C13_Witness ==
    /\ last.op = "__init__"
    /\ last.raised = "JSONDecodeError"
    /\ pc = "uninit"
    /\ Len(file.text) > 1


\* The step is an add_article call.
AddArticleStep == Len(calls') = Len(calls) + 1

\* The arguments of the call of an add_article step.
StepForm == calls'[Len(calls')].form

IsPrefix(short, long) ==
    /\ Len(short) <= Len(long)
    /\ SubSeq(long, 1, Len(short)) = short

\* C14: add_article appends exactly one article record; it leaves the author
\* list as it is for an email the list holds and appends the one record
\* {name, email} otherwise, and likewise {name} to the category list.
C14_RecordsAppended ==
    [][AddArticleStep =>
          /\ Len(data'.articles) = Len(data.articles) + 1
          /\ IsPrefix(data.articles, data'.articles)
          /\ data'.authors =
                IF StepForm.email \in Emails(data.authors)
                THEN data.authors
                ELSE Append(data.authors,
                            [name |-> StepForm.name, email |-> StepForm.email])
          /\ data'.categories =
                IF StepForm.category \in CategoryNames(data.categories)
                THEN data.categories
                ELSE Append(data.categories, [name |-> StepForm.category])]_vars

\* C14's case: a second call of a known email and a known category.
C14_Witness ==
    /\ AddArticleReturned
    /\ Len(calls) = 2
    /\ Len(data.authors) = 1
    /\ Len(data.categories) = 1
    /\ Len(data.articles) = 2

\* C15: over every add_article call the author list before is a prefix of
\* the author list after, and so for the category list.
C15_ListsGrowAtTheEnd ==
    [][AddArticleStep =>
          /\ IsPrefix(data.authors, data'.authors)
          /\ IsPrefix(data.categories, data'.categories)]_vars

\* C15's case: a second author and a second category were added behind the
\* first ones.
C15_Witness ==
    /\ last.op = "add_article"
    /\ Len(calls) = 2
    /\ Len(data.authors) = 2
    /\ Len(data.categories) = 2
    /\ data.authors[1].email = calls[1].form.email
    /\ data.categories[1].name = calls[1].form.category

ReadOps == {"list_articles", "show_article", "show_catalog"}

\* C16: list_articles, show_article of any index and show_catalog leave the
\* document, the mappings, the instances and the file as they were.
C16_ReadsChangeNothing ==
    [][last'.op \in ReadOps => UNCHANGED <<data, authors, categories, heap, file>>]_vars

\* C16's case: show_article of an index out of range while the document in
\* memory is ahead of the file.
C16_Witness ==
    /\ last.op = "show_article"
    /\ ~InRange(last.args.index)
    /\ data.articles # <<>>
    /\ Ahead(load(file))

Timestamps == {Strftime(t) : t \in 0..MaxClock}

\* C17: each call publishes its Article once, so the Article has its
\* published_at, the datetime of the call; the record of the call carries
\* that instant formatted and keeps it; every article record has a
\* published_at.
C17_PublishedOnce ==
    /\ Len(heap.articles) = Len(calls)
    /\ \A i \in 1..Len(calls) :
          /\ heap.articles[i].publishes = 1
          /\ heap.articles[i].published_at = <<calls[i].now>>
          /\ Len(data.articles) >= Len(loaded.articles) + i
          /\ data.articles[Len(loaded.articles) + i].published_at = Strftime(calls[i].now)
          /\ ~Failed(calls[i]) => calls[i].ret = i
    /\ \A i \in 1..Len(data.articles) : data.articles[i].published_at \in Timestamps

\* C17's case: two calls at instants of different seconds, the second
\* returning its Article.
C17_Witness ==
    /\ AddArticleReturned
    /\ Len(calls) = 2
    /\ Strftime(calls[1].now) # Strftime(calls[2].now)

\* C18: between operations the emails of the author mapping are the emails
\* of data["authors"], and the names of the category mapping the names of
\* data["categories"].
C18_MappingsAgree ==
    /\ DOMAIN authors = Emails(data.authors)
    /\ DOMAIN categories = CategoryNames(data.categories)

\* C18's case: a call that created an author and whose save failed, on a
\* manager that loaded another author.
C18_Witness ==
    /\ AddArticleRaised
    /\ Len(loaded.authors) = 1
    /\ Len(data.authors) = 2

====
